---- MODULE Spec2Model ----
(***************************************************************************)
(* The caliserv back-end service (src/scripts/main.py): the dispatcher     *)
(* loop of main(), its per-row reconciliation of the Calibro_results       *)
(* table against the registry dict_proc/dict_pipe, and the job processes   *)
(* as the dispatcher observes them (alive or dead, exit status, tokens on  *)
(* the pipe, the job directory and the kill.it file in it).                *)
(*                                                                         *)
(* One job row is modelled.  The dispatcher handles rows one after another *)
(* and every registry access is keyed by the row's own id, so rows of      *)
(* different ids interact only through an exception that ends the loop.    *)
(*                                                                         *)
(* Spec lets a job send any tokens and end with any status.  RunSpec has   *)
(* the job processes take the steps of runJob and jobError; HappySpec is   *)
(* RunSpec without failures, restarts, kill.it, signals and cancel         *)
(* requests, with dispatcher and job each taking its next step eventually. *)
(* IncarnationSpec is Spec for a service that is never started again.      *)
(***************************************************************************)
EXTENDS Integers, Sequences, FiniteSets, TLC

\* The job ids of the rows of the table.
Ids == {1}

\* Most tokens a job has sent that the dispatcher has not yet received.
MaxPipe == 3

\* A value on the pipe whose type is not int (line 552).  Python compares it
\* unequal to every integer; it is written here as an integer no token equals.
NonInt == -1

\* Python's None, which line 554 stores in i_tmp.
None == -2

\* What a job may con.send(): the lifecycle tokens 1..4, the result flags
\* 0..3, an integer outside both (99) and a non-integer.
Tokens == {0, 1, 2, 3, 4, 99, NonInt}

\* The values of Calibro_results.result.
Progress == 0..9

VARIABLES
    result,     \* result[id]: Calibro_results.result of the row
    sup,        \* the dispatcher: "idle" (between ticks), "rows" (in the for
                \* loop of a tick), "crashed" (an exception left main())
    query,      \* the rows fetched by this tick's SELECT, not yet processed
    dict_proc,  \* keys of dict_proc
    dict_pipe,  \* keys of dict_pipe
    proc,       \* proc[id]: the process of dict_proc[id]: "none" (no entry),
                \* "starting" (forked, job directory not yet made), "alive",
                \* "dead0" (exitcode 0), "dead1" (exitcode not 0)
    pipe,       \* pipe[id]: tokens sent on dict_pipe[id], not yet received
    stray,      \* stray[id]: a live job process of id that no registry holds
    jobdir,     \* jobdir[id]: ../jobs/job_<id> exists
    killit,     \* killit[id]: ../jobs/job_<id>/kill.it exists
    job,        \* job[id]: where the job process of dict_proc[id] is in
                \* runJob (pc), the i_errorCode jobError was called with and
                \* the exit status of the process (None: none), <id>.err
                \* written (errfile), ../Results/<id> remade by this process
                \* (remade), the files in ../Results/<id> (results) and
                \* every token the process has sent (sent)
    starts,     \* starts[id]: how many job processes were started for id
                \* since the front end last asked for the job (wrote 0): 0,
                \* 1, or 2 for more than one
    last        \* what the last step did, if it was the handling of a row:
                \* the branch taken (path), the row (id, i_progress), the state
                \* it met (db: the row in the table, inReg, procWas, killitWas),
                \* the tokens the job had sent by its end, what is_alive() and
                \* exitcode said (found), and what it did: the last i_update,
                \* the value given to sql_update (sql, -1 for none) and
                \* whether the UPDATE went through (sqlOk), jobs started,
                \* SIGKILL, SIGTERM, rmtree, a job left zombified, an
                \* exception that left main() (crash), the polls of the
                \* cancel wait (slept) and whether the job was joined

vars == <<result, sup, query, dict_proc, dict_pipe, proc, pipe, stray, jobdir,
          killit, job, starts, last>>

----------------------------------------------------------------------------
\* The record of a step that handled no row.
NoStep ==
    [path |-> "none", id |-> 0, i_progress |-> -1, db |-> -1, inReg |-> FALSE,
     procWas |-> "none", killitWas |-> FALSE, tokens |-> <<>>, i_update |-> -1,
     sql |-> -1, sqlOk |-> FALSE, started |-> 0, sigkill |-> FALSE,
     sigterm |-> FALSE, rmtree |-> FALSE, zombie |-> FALSE, crash |-> FALSE,
     found |-> "none", slept |-> 0, joined |-> FALSE]

\* No job process has run yet.
NoJob ==
    [pc |-> "none", errcode |-> None, exitcode |-> None, errfile |-> FALSE,
     remade |-> FALSE, results |-> {}, sent |-> <<>>]

Init ==
    /\ result = [id \in Ids |-> 0]
    /\ sup = "idle"
    /\ query = <<>>
    /\ dict_proc = {}
    /\ dict_pipe = {}
    /\ proc = [id \in Ids |-> "none"]
    /\ pipe = [id \in Ids |-> <<>>]
    /\ stray = [id \in Ids |-> FALSE]
    /\ jobdir = [id \in Ids |-> FALSE]
    /\ killit = [id \in Ids |-> FALSE]
    /\ job = [id \in Ids |-> NoJob]
    /\ starts = [id \in Ids |-> 0]
    /\ last = NoStep

----------------------------------------------------------------------------
\* Pure functions of the reconciliation.

\* type(i_tmp)==int (line 552).
IsInt(t) == t # NonInt

\* The drain loop of a live job (lines 547-558), on the tokens s in the pipe:
\* i_tmp and b_done after the loop.
RECURSIVE DrainAliveFrom(_, _, _)
DrainAliveFrom(s, i_tmp, b_done) ==
    IF s = <<>> THEN [i_tmp |-> i_tmp, b_done |-> b_done]
    ELSE IF ~IsInt(Head(s)) THEN [i_tmp |-> None, b_done |-> b_done]
    ELSE DrainAliveFrom(Tail(s), Head(s), b_done \/ Head(s) = 4)

DrainAlive(s) == DrainAliveFrom(s, 0, FALSE)

\* The drain loop of a dead job (lines 615-628 and 700-713): every token is
\* received, then recv() raises EOFError and i_tmp keeps the last token.
RECURSIVE DrainDeadFrom(_, _, _)
DrainDeadFrom(s, i_tmp, b_done) ==
    IF s = <<>> THEN [i_tmp |-> i_tmp, b_done |-> b_done]
    ELSE DrainDeadFrom(Tail(s), Head(s), b_done \/ Head(s) = 4)

DrainDead(s) == DrainDeadFrom(s, 0, FALSE)

\* Lines 571-578: with the exit token still in i_tmp, the performance flag is
\* received if the pipe (now holding only what came during the wait) has it.
ResultFlagAlive(i_tmp, late) ==
    IF i_tmp = 4 /\ late # <<>> THEN Head(late) ELSE i_tmp

\* Lines 579-591 with flags 1 and 2 giving 4 and 5, in the order of the flags.
DoneCodeAlive_InOrder(i_tmp) ==
    IF i_tmp = 0 THEN 3
    ELSE IF i_tmp = 1 THEN 4
    ELSE IF i_tmp = 2 THEN 5
    ELSE IF i_tmp = 3 THEN 6
    ELSE 9

\* Lines 579-591: performance flag to result, for a job that was alive.
DoneCodeAlive(i_tmp) ==
    IF i_tmp = 0 THEN 3
    ELSE IF i_tmp = 1 THEN 5
    ELSE IF i_tmp = 2 THEN 4
    ELSE IF i_tmp = 3 THEN 6
    ELSE 9

\* Lines 631-643: the same for a job found dead.
DoneCodeDead(i_tmp) ==
    IF i_tmp = 0 THEN 3
    ELSE IF i_tmp = 1 THEN 5
    ELSE IF i_tmp = 2 THEN 4
    ELSE IF i_tmp = 3 THEN 6
    ELSE 9

\* Lines 716-728: the same for a job found dead when its row asks to cancel.
DoneCodeCancel(i_tmp) ==
    IF i_tmp = 0 THEN 3
    ELSE IF i_tmp = 1 THEN 5
    ELSE IF i_tmp = 2 THEN 4
    ELSE IF i_tmp = 3 THEN 6
    ELSE 9

\* Lines 630-648 without the test of the exit code at line 630.
ClassifyDead_DoneFirst(d, exit0) ==
    IF d.b_done THEN DoneCodeDead(d.i_tmp)
    ELSE IF ~exit0 THEN 2
    ELSE 9

\* Lines 630-648: the result of a job found dead under a row in progress.
ClassifyDead(d, exit0) ==
    IF d.b_done /\ exit0 THEN DoneCodeDead(d.i_tmp)
    ELSE IF ~exit0 THEN 2
    ELSE 9

\* Lines 705-731 taking a job without the exit token as still running, as
\* lines 599-606 do for a live job.
ClassifyCancel_StillRunning(d, exit0) ==
    IF d.b_done /\ exit0 THEN DoneCodeCancel(d.i_tmp)
    ELSE IF ~exit0 THEN 2
    ELSE 1

\* Lines 715-733 answering every cancel request with 8.
ClassifyCancel_Cancelled(d, exit0) == 8

\* Lines 715-733: the result of a job found dead under a row to cancel.
ClassifyCancel(d, exit0) ==
    IF d.b_done /\ exit0 THEN DoneCodeCancel(d.i_tmp)
    ELSE IF ~exit0 THEN 2
    ELSE 9

\* Lines 599-606 without the branch of token 3 (lines 605-606).
StillRunning_NoUpload(i_tmp) == i_tmp \in {0, 1, 2}

\* Lines 599-611: a live job that sent no exit token: still in progress (1)
\* on a last token of 0..3, anything else is answered with killItWithFire (9).
StillRunning(i_tmp) == i_tmp \in {0, 1, 2, 3}

\* Lines 744-746: the value handed to sql_update at the end of a row, -1 for
\* no update.
WriteBack(i_update) == IF i_update > 0 THEN i_update ELSE -1

\* Line 484 left out: no check that a job of this id already exists.
AlreadyExists_Never(id) == FALSE

\* Line 484.
AlreadyExists(id) == id \in dict_proc

\* Lines 512 and 669.
NotRegistered(id) == id \notin dict_proc \/ id \notin dict_pipe

\* Lines 518 and 536: isfile(getJobDir(s_jobID)+'/kill.it').
KillFile(id) == killit[id]

\* proc.is_alive() (lines 545, 563, 677, 683).
is_alive(id) == proc[id] \in {"starting", "alive"}

----------------------------------------------------------------------------
\* The jobs, the front end and the administrator.

\* A job follows the shape of runJob's sends (lines 77, 174, 187, 221-227):
\* after the exit token 4 it sends at most one more value, the performance
\* flag.  Which values it sends is left open.
CanSend(s) == \A i \in 1..(Len(s) - 1) : s[i] # 4

\* runJob, lines 50-58: the job wipes and remakes its directory.
JobSetup(id) ==
    /\ proc[id] = "starting"
    /\ proc' = [proc EXCEPT ![id] = "alive"]
    /\ jobdir' = [jobdir EXCEPT ![id] = TRUE]
    /\ killit' = [killit EXCEPT ![id] = FALSE]
    /\ last' = NoStep
    /\ UNCHANGED <<job, starts, result, sup, query, dict_proc, dict_pipe,
                   pipe, stray>>

\* con.send(t) in runJob.
JobSend(id) ==
    /\ proc[id] = "alive"
    /\ Len(pipe[id]) < MaxPipe
    /\ CanSend(pipe[id])
    /\ \E t \in Tokens : pipe' = [pipe EXCEPT ![id] = Append(@, t)]
    /\ last' = NoStep
    /\ UNCHANGED <<job, starts, result, sup, query, dict_proc, dict_pipe,
                   proc, stray, jobdir, killit>>

\* The job process ends: runJob returns (exit code 0), or jobError's
\* sys.exit(1) (line 287), an exception or a signal ends it (not 0).
JobExit(id) ==
    /\ is_alive(id)
    /\ \E e \in {"dead0", "dead1"} :
          /\ e = "dead0" => proc[id] = "alive"
          /\ proc' = [proc EXCEPT ![id] = e]
    /\ last' = NoStep
    /\ UNCHANGED <<job, starts, result, sup, query, dict_proc, dict_pipe,
                   pipe, stray, jobdir, killit>>

\* A job process that no registry holds ends.
StrayExit(id) ==
    /\ stray[id]
    /\ stray' = [stray EXCEPT ![id] = FALSE]
    /\ last' = NoStep
    /\ UNCHANGED <<job, starts, result, sup, query, dict_proc, dict_pipe,
                   proc, pipe, jobdir, killit>>

\* The front end requests a job (0) or its cancellation (7).
FrontEndWrite(id) ==
    /\ \E v \in {0, 7} :
          /\ result[id] # v
          /\ result' = [result EXCEPT ![id] = v]
          /\ starts' = [starts EXCEPT ![id] = IF v = 0 THEN 0 ELSE @]
    /\ last' = NoStep
    /\ UNCHANGED <<job, sup, query, dict_proc, dict_pipe, proc, pipe, stray,
                   jobdir, killit>>

\* The administrator puts kill.it into the job directory.
DropKillIt(id) ==
    /\ jobdir[id]
    /\ ~killit[id]
    /\ killit' = [killit EXCEPT ![id] = TRUE]
    /\ last' = NoStep
    /\ UNCHANGED <<job, starts, result, sup, query, dict_proc, dict_pipe,
                   proc, pipe, stray, jobdir>>

----------------------------------------------------------------------------
\* The dispatcher loop of main() (lines 421-751).

\* The rows of a set of ids, as the SELECT of line 464 returns them.
RECURSIVE RowsOf(_)
RowsOf(S) ==
    IF S = {} THEN <<>>
    ELSE LET id == CHOOSE x \in S : \A y \in S : x <= y
         IN  <<[id |-> id, i_progress |-> result[id]]>> \o RowsOf(S \ {id})

\* Lines 438-471, connection and query succeed: the rows are fetched.
TickBegin ==
    /\ sup = "idle"
    /\ sup' = "rows"
    /\ query' = RowsOf(Ids)
    /\ last' = NoStep
    /\ UNCHANGED <<job, starts, result, dict_proc, dict_pipe, proc, pipe,
                   stray, jobdir, killit>>

\* The record of a tick that was abandoned: no row was handled.
Abandoned == [NoStep EXCEPT !.path = "abandon"]

\* Lines 438-444 and 462-465 without the try: the exception of a failed
\* connection or query leaves main().
TickAbandon_Raise ==
    /\ sup = "idle"
    /\ sup' = "crashed"
    /\ last' = Abandoned
    /\ UNCHANGED <<job, starts, result, query, dict_proc, dict_pipe, proc,
                   pipe, stray, jobdir, killit>>

\* Lines 445-448 and 466-469: connection or query fails; mainError,
\* sleepTilNext, continue.
TickAbandon ==
    /\ sup = "idle"
    /\ last' = Abandoned
    /\ UNCHANGED <<job, starts, result, sup, query, dict_proc, dict_pipe,
                   proc, pipe, stray, jobdir, killit>>

\* Lines 748-751: the rows are done; cnx.close() and sleepTilNext.
TickEnd ==
    /\ sup = "rows"
    /\ query = <<>>
    /\ sup' = "idle"
    /\ last' = NoStep
    /\ UNCHANGED <<job, starts, result, query, dict_proc, dict_pipe, proc,
                   pipe, stray, jobdir, killit>>

\* The service is started again, after it was killed or after an exception
\* ended it: lines 402-403 make empty dictionaries.  Job processes of the old
\* service that still run are held by no registry.
Restart ==
    /\ sup' = "idle"
    /\ query' = <<>>
    /\ dict_proc' = {}
    /\ dict_pipe' = {}
    /\ stray' = [id \in Ids |-> stray[id] \/ is_alive(id)]
    /\ proc' = [id \in Ids |-> "none"]
    /\ pipe' = [id \in Ids |-> <<>>]
    /\ last' = NoStep
    /\ UNCHANGED <<job, starts, result, jobdir, killit>>

----------------------------------------------------------------------------
\* The body of the for loop (lines 473-746): one row is handled.

\* The outcome of a row that changes nothing.
Same(id, path) ==
    [path |-> path, i_update |-> -1, sql |-> -1, reg |-> id \in dict_proc,
     regPipe |-> id \in dict_pipe,
     procAfter |-> proc[id], pipeAfter |-> pipe[id], strayAfter |-> stray[id],
     jobdirAfter |-> jobdir[id], killitAfter |-> killit[id],
     tokens |-> pipe[id], started |-> 0, sigkill |-> FALSE,
     sigterm |-> FALSE, rmtree |-> FALSE, zombie |-> FALSE, crash |-> FALSE,
     found |-> "none", slept |-> 0, joined |-> FALSE]

\* Lines 495-500 and 527-532 without the two dictionary entries.
StartJob_NotStored(o) ==
    [o EXCEPT !.started = 1, !.strayAfter = TRUE]

\* Lines 495-500 and 527-532: Pipe(False), Process(...).start() and the two
\* dictionary entries.
StartJob(o) ==
    [o EXCEPT !.started = 1, !.reg = TRUE, !.regPipe = TRUE,
              !.procAfter = "starting", !.pipeAfter = <<>>]

\* killItWithFire without line 417: the entry of dict_pipe is left behind.
killItWithFire_KeepPipe(id, o) ==
    IF jobdir[id]
    THEN [o EXCEPT !.sigkill = TRUE, !.rmtree = TRUE, !.jobdirAfter = FALSE,
                   !.killitAfter = FALSE, !.reg = FALSE,
                   !.procAfter = "none", !.pipeAfter = <<>>]
    ELSE [o EXCEPT !.sigkill = TRUE, !.crash = TRUE, !.procAfter = "dead1"]

\* killItWithFire (lines 409-417): SIGKILL, rmtree of the job directory, the
\* pipe closed, both entries deleted.  rmtree raises when there is no such
\* directory, and the exception leaves main().
killItWithFire(id, o) ==
    IF jobdir[id]
    THEN [o EXCEPT !.sigkill = TRUE, !.rmtree = TRUE, !.jobdirAfter = FALSE,
                   !.killitAfter = FALSE, !.reg = FALSE, !.regPipe = FALSE,
                   !.procAfter = "none", !.pipeAfter = <<>>]
    ELSE [o EXCEPT !.sigkill = TRUE, !.crash = TRUE, !.procAfter = "dead1"]

\* Lines 594-598, 649-651, 691-694 and 734-736 without the two del: the pipe
\* is closed and the entries stay.
Deregister_KeepEntries(o) ==
    IF o.reg THEN [o EXCEPT !.pipeAfter = <<>>]
    ELSE [o EXCEPT !.crash = TRUE]

\* Lines 594-598, 649-651, 691-694 and 734-736: the pipe is closed and both
\* entries are deleted.  del raises KeyError when killItWithFire already
\* deleted them (line 567 before line 597).
Deregister(o) ==
    IF o.reg
    THEN [o EXCEPT !.reg = FALSE, !.regPipe = FALSE, !.procAfter = "none",
                   !.pipeAfter = <<>>]
    ELSE [o EXCEPT !.crash = TRUE]

\* Line 686: the number of waits of 0.1 s a job to cancel is given.
ZombieLimit == 50

\* How many is_alive() calls beyond that limit a job may answer alive.
MaxOverstay == 2

\* The numbers of is_alive() calls of the wait a job answers alive: none,
\* one, as many as the limit, and more.
AlivePolls ==
    {0, 1, ZombieLimit} \cup (ZombieLimit + 1)..(ZombieLimit + MaxOverstay)

\* Lines 683-689 without the limit of lines 686-689.
RECURSIVE CancelWait_NoLimit(_, _)
CancelWait_NoLimit(slept, a) ==
    IF a = 0 THEN [slept |-> slept, b_zombie |-> FALSE]
    ELSE CancelWait_NoLimit(slept + 1, a - 1)

\* Lines 683-689: while proc.is_alive(): sleep(0.1), slept+=1, and past the
\* limit b_zombie=True and break.  a: how many of the is_alive() calls still
\* to come find the job alive.
RECURSIVE CancelWait(_, _)
CancelWait(slept, a) ==
    IF a = 0 THEN [slept |-> slept, b_zombie |-> FALSE]
    ELSE IF slept + 1 > ZombieLimit THEN [slept |-> slept + 1, b_zombie |-> TRUE]
    ELSE CancelWait(slept + 1, a - 1)

\* Lines 680-694 keeping the entries of a job that is still alive after the
\* wait, to join it at a later tick.
CancelAlive_KeepZombie(id, o, z) ==
    IF z THEN [o EXCEPT !.sigterm = TRUE, !.zombie = TRUE]
    ELSE Deregister([o EXCEPT !.sigterm = TRUE])

\* Lines 680-694: proc.terminate(), the wait, proc.join() unless the job is
\* still alive (z), then the pipe closed and both entries deleted.
CancelAlive(id, o, z) ==
    Deregister([o EXCEPT !.sigterm = TRUE, !.zombie = z, !.joined = ~z,
                         !.strayAfter = stray[id] \/ z])

\* sql_update(i_update,i_jobID) (lines 453-460).
sql_update(o, i_update) == [o EXCEPT !.sql = i_update]

\* sql_update(i_update,idx) (lines 521 and 540): idx is bound nowhere, so
\* evaluating the call raises NameError before anything is sent.
sql_update_idx(o, i_update) == [o EXCEPT !.crash = TRUE]

\* The end of a row (lines 744-746), unless an exception was raised.
Finish(o) ==
    IF o.crash THEN o ELSE sql_update(o, WriteBack(o.i_update))

\* The count of jobs started, one more: 1 after 0, else 2 (more than one).
OneMore(n) == IF n = 0 THEN 1 ELSE 2

\* The effect of a row with outcome o; ok: the UPDATE and its commit succeed
\* (lines 455-456), otherwise sql_update logs the failure (lines 457-458).
Commit(row, o, ok) ==
    LET id == row.id IN
    /\ result' = [result EXCEPT
                    ![id] = IF o.sql # -1 /\ ok /\ ~o.crash THEN o.sql ELSE @]
    /\ sup' = IF o.crash THEN "crashed" ELSE "rows"
    /\ query' = IF o.crash THEN <<>> ELSE Tail(query)
    /\ dict_proc' = IF o.reg THEN dict_proc \cup {id} ELSE dict_proc \ {id}
    /\ dict_pipe' = IF o.regPipe THEN dict_pipe \cup {id} ELSE dict_pipe \ {id}
    /\ proc' = [proc EXCEPT ![id] = o.procAfter]
    /\ pipe' = [pipe EXCEPT ![id] = o.pipeAfter]
    /\ stray' = [stray EXCEPT ![id] = o.strayAfter]
    /\ jobdir' = [jobdir EXCEPT ![id] = o.jobdirAfter]
    /\ killit' = [killit EXCEPT ![id] = o.killitAfter]
    /\ job' = job
    /\ starts' = [starts EXCEPT ![id] = IF o.started = 1 THEN OneMore(@) ELSE @]
    /\ last' = [path |-> o.path, id |-> id, i_progress |-> row.i_progress,
                db |-> result[id], inReg |-> id \in dict_proc,
                procWas |-> proc[id], killitWas |-> killit[id],
                tokens |-> o.tokens, i_update |-> o.i_update, sql |-> o.sql,
                sqlOk |-> (o.sql # -1 /\ ok /\ ~o.crash),
                started |-> o.started, sigkill |-> o.sigkill,
                sigterm |-> o.sigterm, rmtree |-> o.rmtree,
                zombie |-> o.zombie, crash |-> o.crash, found |-> o.found,
                slept |-> o.slept, joined |-> o.joined]

\* A row is at hand.
AtRow == sup = "rows" /\ query # <<>>

\* Line 503 taking failed rows (2) as rows in progress too.
IsInProgress_OrFailed(p) == p = 1 \/ p = 2

\* Lines 481, 503 and 662: the branch a row takes.
IsPending(p) == p = 0
IsInProgress(p) == p = 1
IsCancel(p) == p = 7

\* What a live job may still send while the dispatcher waits at line 562.
Late(s) == {<<>>} \cup (IF CanSend(s) THEN {<<t>> : t \in Tokens} ELSE {})

\* Lines 481-501: a pending row.  A job of this id that already exists is not
\* started again; either way the row is updated to 1.
RowPending ==
    /\ AtRow
    /\ LET row == Head(query)
           id == row.id
           o == IF AlreadyExists(id)
                THEN sql_update([Same(id, "duplicate") EXCEPT !.i_update = 1], 1)
                ELSE Finish([StartJob(Same(id, "start")) EXCEPT !.i_update = 1])
       IN  /\ IsPending(row.i_progress)
           /\ \E ok \in BOOLEAN : Commit(row, o, ok)

\* Lines 512-533: a row in progress whose job is not registered.  With
\* kill.it the row is to become 9; otherwise the job is started again and the
\* row is left as it is.
RowRecover ==
    /\ AtRow
    /\ LET row == Head(query)
           id == row.id
           o == IF KillFile(id)
                THEN sql_update_idx([Same(id, "recoverKill")
                                       EXCEPT !.i_update = 9], 9)
                ELSE StartJob(Same(id, "recover"))
       IN  /\ IsInProgress(row.i_progress)
           /\ NotRegistered(id)
           /\ \E ok \in BOOLEAN : Commit(row, o, ok)

\* Lines 536-541: a registered job with kill.it in its directory.
RowKillFile ==
    /\ AtRow
    /\ LET row == Head(query)
           id == row.id
           k == killItWithFire(id, Same(id, "killFile"))
           o == IF k.crash THEN k
                ELSE sql_update_idx([k EXCEPT !.i_update = 9], 9)
       IN  /\ IsInProgress(row.i_progress)
           /\ ~NotRegistered(id)
           /\ KillFile(id)
           /\ \E ok \in BOOLEAN : Commit(row, o, ok)

\* Lines 545-611: a registered job that is alive.  g is what line 563 finds
\* after the wait of line 562: the job alive, or dead with exit code 0 or not.
RowAlive ==
    /\ AtRow
    /\ LET row == Head(query)
           id == row.id
           d == DrainAlive(pipe[id])
       IN  /\ IsInProgress(row.i_progress)
           /\ ~NotRegistered(id)
           /\ ~KillFile(id)
           /\ is_alive(id)
           /\ IF d.b_done
              THEN \E late \in Late(pipe[id]), g \in {"alive", "dead0", "dead1"} :
                     LET base == [Same(id, "aliveDone")
                                    EXCEPT !.tokens = pipe[id] \o late,
                                           !.found = g]
                         k == killItWithFire(id, base)
                         o == IF g = "alive"
                              THEN IF k.crash THEN k
                                   ELSE Deregister([k EXCEPT !.i_update = 9])
                              ELSE IF g = "dead0"
                              THEN Deregister([base EXCEPT !.i_update =
                                     DoneCodeAlive(ResultFlagAlive(d.i_tmp, late))])
                              ELSE Deregister([base EXCEPT !.i_update = 2])
                     IN  \E ok \in BOOLEAN : Commit(row, Finish(o), ok)
              ELSE LET k == killItWithFire(id, [Same(id, "aliveKill")
                                                      EXCEPT !.found = "alive"])
                       o == IF StillRunning(d.i_tmp)
                            THEN [Same(id, "aliveRunning")
                                    EXCEPT !.i_update = 1, !.pipeAfter = <<>>,
                                           !.found = "alive"]
                            ELSE IF k.crash THEN k
                            ELSE [k EXCEPT !.i_update = 9]
                   IN  \E ok \in BOOLEAN : Commit(row, Finish(o), ok)

\* Lines 612-651: a registered job that is dead.
RowDead ==
    /\ AtRow
    /\ LET row == Head(query)
           id == row.id
           d == DrainDead(pipe[id])
           o == Deregister([Same(id, "dead") EXCEPT !.found = proc[id],
                              !.i_update = ClassifyDead(d, proc[id] = "dead0")])
       IN  /\ IsInProgress(row.i_progress)
           /\ ~NotRegistered(id)
           /\ ~KillFile(id)
           /\ ~is_alive(id)
           /\ \E ok \in BOOLEAN : Commit(row, Finish(o), ok)

\* Lines 669-674 without the update: the row is skipped.
CancelUnknown_Skip(o) == o

\* Lines 670-674: i_update=8, sql_update(i_update,i_jobID), continue.
CancelUnknown(o) == sql_update([o EXCEPT !.i_update = 8], 8)

\* Lines 669-674: a row to cancel whose job is not registered.
RowCancelUnknown ==
    /\ AtRow
    /\ LET row == Head(query)
           id == row.id
           o == CancelUnknown(Same(id, "cancelUnknown"))
       IN  /\ IsCancel(row.i_progress)
           /\ NotRegistered(id)
           /\ \E ok \in BOOLEAN : Commit(row, o, ok)

\* Lines 677-696: a row to cancel whose job is alive: proc.terminate(), the
\* wait, then the entries deleted.  a: how many of the wait's is_alive() calls
\* the job answers alive; a job the wait gives up on (mainError '... left
\* zombified', no join) is still alive after the row.
RowCancelAlive ==
    /\ AtRow
    /\ LET row == Head(query)
           id == row.id
       IN  /\ IsCancel(row.i_progress)
           /\ ~NotRegistered(id)
           /\ is_alive(id)
           /\ \E a \in AlivePolls, ok \in BOOLEAN :
                LET w == CancelWait(0, a)
                    o == CancelAlive(id, [Same(id, "cancelAlive")
                                            EXCEPT !.found = "alive",
                                                   !.slept = w.slept],
                                     w.b_zombie)
                IN  Commit(row, Finish([o EXCEPT !.i_update = 8]), ok)

\* Lines 697-742: a row to cancel whose job is dead.
RowCancelDead ==
    /\ AtRow
    /\ LET row == Head(query)
           id == row.id
           d == DrainDead(pipe[id])
           o == Deregister([Same(id, "cancelDead") EXCEPT !.found = proc[id],
                              !.i_update = ClassifyCancel(d, proc[id] = "dead0")])
       IN  /\ IsCancel(row.i_progress)
           /\ ~NotRegistered(id)
           /\ ~is_alive(id)
           /\ \E ok \in BOOLEAN : Commit(row, Finish(o), ok)

\* A row of any other value: no branch is taken and i_update stays -1.
RowOther ==
    /\ AtRow
    /\ LET row == Head(query)
           id == row.id
       IN  /\ ~IsPending(row.i_progress)
           /\ ~IsInProgress(row.i_progress)
           /\ ~IsCancel(row.i_progress)
           /\ \E ok \in BOOLEAN : Commit(row, Finish(Same(id, "other")), ok)

Reconcile ==
    \/ RowPending
    \/ RowRecover
    \/ RowKillFile
    \/ RowAlive
    \/ RowDead
    \/ RowCancelUnknown
    \/ RowCancelAlive
    \/ RowCancelDead
    \/ RowOther

Next ==
    \/ TickBegin
    \/ TickAbandon
    \/ Reconcile
    \/ TickEnd
    \/ Restart
    \/ \E id \in Ids : JobSetup(id)
    \/ \E id \in Ids : JobSend(id)
    \/ \E id \in Ids : JobExit(id)
    \/ \E id \in Ids : StrayExit(id)
    \/ \E id \in Ids : FrontEndWrite(id)
    \/ \E id \in Ids : DropKillIt(id)

Spec == Init /\ [][Next]_vars

\* One run of the service: it is never started again.
Incarnation ==
    \/ TickBegin
    \/ TickAbandon
    \/ Reconcile
    \/ TickEnd
    \/ \E id \in Ids : JobSetup(id)
    \/ \E id \in Ids : JobSend(id)
    \/ \E id \in Ids : JobExit(id)
    \/ \E id \in Ids : StrayExit(id)
    \/ \E id \in Ids : FrontEndWrite(id)
    \/ \E id \in Ids : DropKillIt(id)

IncarnationSpec == Init /\ [][Incarnation]_vars

----------------------------------------------------------------------------
\* runJob (lines 46-233) and jobError (lines 242-287), step by step.  pc names
\* the step the job process is about to take: "send1" (line 77), "fetch"
\* (113-129), "check" (132-149), "send2" (174), "calibrate" (177-183), "send3"
\* (187), "publish" (190-207), "send4" (221), "flag" (225), "return" (the end
\* of runJob), "error" (jobError entered), "done" (the process has ended).

\* What the archive name's extension may be, and the input files there are.
Extensions == {"zip", "tar", "tar.gz", "rar"}
InputFiles == {"bc.csv", "calibro_input.csv", "obs.csv", "sim.csv",
               "a_obs.csv", "a_sim.csv"}

\* The exit statuses of the calibration binary.
ReturnCodes == {0, 1, 2}

\* The two reports the calibration writes and line 190 moves to outputs/.
Reports == {"calibro_report.json", "calibro_report.pdf"}

\* A call of jobError with i_errorCode.
EnterError(j, i_errorCode) == [j EXCEPT !.pc = "error", !.errcode = i_errorCode]

\* One step of the job process of id: the process and its pipe after it, and
\* its record.
JobStep(id, procAfter, pipeAfter, j) ==
    /\ proc' = [proc EXCEPT ![id] = procAfter]
    /\ pipe' = [pipe EXCEPT ![id] = pipeAfter]
    /\ job' = [job EXCEPT ![id] = j]
    /\ last' = NoStep
    /\ UNCHANGED <<result, sup, query, dict_proc, dict_pipe, stray, killit,
                   starts>>

\* Lines 48-74: the job directory is wiped and made again (and with it
\* <id>.err and kill.it are gone), the SIGTERM handler is set.
RunSetup(id) ==
    /\ proc[id] = "starting"
    /\ jobdir' = [jobdir EXCEPT ![id] = TRUE]
    /\ JobStep(id, "alive", pipe[id],
               [NoJob EXCEPT !.pc = "send1", !.results = job[id].results])
    /\ killit' = [killit EXCEPT ![id] = FALSE]

\* Lines 221-225 sending the flag before the exit token.
TokenAt_FlagFirst(pc) ==
    CASE pc = "send1" -> 1
      [] pc = "send2" -> 2
      [] pc = "send3" -> 3
      [] pc = "send4" -> 0
      [] pc = "flag" -> 4

\* The value of each con.send: started (line 77), running (174), uploading
\* (187), exit (221) and, b_dummy being True, the flag 0 (225).
TokenAt(pc) ==
    CASE pc = "send1" -> 1
      [] pc = "send2" -> 2
      [] pc = "send3" -> 3
      [] pc = "send4" -> 4
      [] pc = "flag" -> 0

\* The steps of runJob with lines 190-207 left out: the exit token follows
\* the uploading token at once.
AfterSend_NoPublish(pc) ==
    CASE pc = "send1" -> "fetch"
      [] pc = "send2" -> "calibrate"
      [] pc = "send3" -> "send4"
      [] pc = "send4" -> "flag"
      [] pc = "flag" -> "return"

\* The step after each con.send.
AfterSend(pc) ==
    CASE pc = "send1" -> "fetch"
      [] pc = "send2" -> "calibrate"
      [] pc = "send3" -> "publish"
      [] pc = "send4" -> "flag"
      [] pc = "flag" -> "return"

RunSend(id) ==
    /\ proc[id] = "alive"
    /\ job[id].pc \in {"send1", "send2", "send3", "send4", "flag"}
    /\ JobStep(id, "alive", Append(pipe[id], TokenAt(job[id].pc)),
               [job[id] EXCEPT !.pc = AfterSend(@),
                               !.sent = Append(@, TokenAt(job[id].pc))])
    /\ UNCHANGED jobdir

\* Lines 113-129: copyfile of the archive (copied: it went through), the
\* extension s_ext, and the extraction (extracted: it went through).
Fetch(j, copied, s_ext, extracted) ==
    IF ~copied THEN EnterError(j, 11)
    ELSE IF s_ext \notin {"zip", "tar", "tar.gz"} THEN EnterError(j, 16)
    ELSE IF ~extracted THEN EnterError(j, 16)
    ELSE [j EXCEPT !.pc = "check"]

RunFetch(id) ==
    /\ proc[id] = "alive"
    /\ job[id].pc = "fetch"
    /\ \E copied \in BOOLEAN, s_ext \in Extensions, extracted \in BOOLEAN :
          JobStep(id, "alive", pipe[id], Fetch(job[id], copied, s_ext, extracted))
    /\ UNCHANGED jobdir

\* Lines 132-149 on the files F of inputs/: bc.csv and calibro_input.csv, and
\* obs.csv with sim.csv or else data sets <name>_obs.csv with <name>_sim.csv.
CheckInputs(j, F) ==
    IF "bc.csv" \notin F THEN EnterError(j, 11)
    ELSE IF "calibro_input.csv" \notin F THEN EnterError(j, 11)
    ELSE IF "obs.csv" \notin F
    THEN IF "a_obs.csv" \notin F THEN EnterError(j, 11)
         ELSE IF "a_sim.csv" \notin F THEN EnterError(j, 11)
         ELSE [j EXCEPT !.pc = "send2"]
    ELSE IF "sim.csv" \notin F THEN EnterError(j, 11)
    ELSE [j EXCEPT !.pc = "send2"]

RunCheck(id) ==
    /\ proc[id] = "alive"
    /\ job[id].pc = "check"
    /\ \E F \in SUBSET InputFiles :
          JobStep(id, "alive", pipe[id], CheckInputs(job[id], F))
    /\ UNCHANGED jobdir

\* Lines 177-183: the calibration ends with status returncode, having written
\* its reports when that is 0.
Calibrate(j, returncode) ==
    IF returncode # 0 THEN EnterError(j, returncode)
    ELSE [j EXCEPT !.pc = "send3"]

RunCalibrate(id) ==
    /\ proc[id] = "alive"
    /\ job[id].pc = "calibrate"
    /\ \E returncode \in ReturnCodes :
          JobStep(id, "alive", pipe[id], Calibrate(job[id], returncode))
    /\ UNCHANGED jobdir

\* Lines 190-207: ../Results/<id> is removed and made again and the entries of
\* outputs/ are copied to it.  odd: an entry is neither file nor directory
\* (line 206); the entries in done were copied before it.
Publish(j, odd, done) ==
    IF odd
    THEN EnterError([j EXCEPT !.remade = TRUE, !.results = done], 18)
    ELSE [j EXCEPT !.remade = TRUE, !.results = Reports, !.pc = "send4"]

RunPublish(id) ==
    /\ proc[id] = "alive"
    /\ job[id].pc = "publish"
    /\ \E odd \in BOOLEAN, done \in SUBSET Reports :
          /\ ~odd => done = Reports
          /\ JobStep(id, "alive", pipe[id], Publish(job[id], odd, done))
    /\ UNCHANGED jobdir

\* runJob returns and the process ends with status 0.
RunReturn(id) ==
    /\ proc[id] = "alive"
    /\ job[id].pc = "return"
    /\ JobStep(id, "dead0", pipe[id],
               [job[id] EXCEPT !.pc = "done", !.exitcode = 0])
    /\ UNCHANGED jobdir

\* SIGTERM reaches the job process once the handler is set (line 74):
\* SIGTERMhandler calls jobError with 15 (lines 71-72).
RunSigterm(id) ==
    /\ proc[id] = "alive"
    /\ job[id].pc \notin {"none", "error", "done"}
    /\ JobStep(id, "alive", pipe[id], EnterError(job[id], 15))
    /\ UNCHANGED jobdir

\* jobError (lines 242-287): <id>.err, outputs/data.json and outputs/report.tex
\* are written; line 270 then reads s_pdf, a name bound nowhere, and the
\* NameError ends the process with status 1 before ../Results/<id> is touched
\* (lines 276-283).  Line 287 would end it with sys.exit(1).
JobErrorExit(j) == [j EXCEPT !.pc = "done", !.errfile = TRUE, !.exitcode = 1]

RunError(id) ==
    /\ proc[id] = "alive"
    /\ job[id].pc = "error"
    /\ JobStep(id, "dead1", pipe[id], JobErrorExit(job[id]))
    /\ UNCHANGED jobdir

\* The wait of line 562 as the job goes through it: what arrived late is the
\* flag the job was about to send, or nothing; a job found dead with exit code
\* 0 has sent its flag and returned; one found dead with another exit code
\* was sent a signal.
GraceAsJob ==
    last'.path = "aliveDone" =>
        LET id == last'.id
            late == SubSeq(last'.tokens, Len(pipe[id]) + 1, Len(last'.tokens))
        IN  /\ job[id].pc \in {"flag", "return"}
            /\ late \in (IF job[id].pc = "flag" THEN {<<>>, <<TokenAt("flag")>>}
                         ELSE {<<>>})
            /\ (last'.found = "dead0" /\ job[id].pc = "flag") => late # <<>>

RunRowAlive == RowAlive /\ GraceAsJob

\* The service with the job processes running runJob.
RunNext ==
    \/ TickBegin
    \/ TickAbandon
    \/ RowPending
    \/ RowRecover
    \/ RowKillFile
    \/ RunRowAlive
    \/ RowDead
    \/ RowCancelUnknown
    \/ RowCancelAlive
    \/ RowCancelDead
    \/ RowOther
    \/ TickEnd
    \/ Restart
    \/ \E id \in Ids : RunSetup(id)
    \/ \E id \in Ids : RunSend(id)
    \/ \E id \in Ids : RunFetch(id)
    \/ \E id \in Ids : RunCheck(id)
    \/ \E id \in Ids : RunCalibrate(id)
    \/ \E id \in Ids : RunPublish(id)
    \/ \E id \in Ids : RunReturn(id)
    \/ \E id \in Ids : RunSigterm(id)
    \/ \E id \in Ids : RunError(id)
    \/ \E id \in Ids : StrayExit(id)
    \/ \E id \in Ids : FrontEndWrite(id)
    \/ \E id \in Ids : DropKillIt(id)

RunSpec == Init /\ [][RunNext]_vars

----------------------------------------------------------------------------

\* The happy path: the table is reachable, so the tick is never abandoned and
\* every UPDATE goes through; the service is not started again, nobody drops
\* kill.it, signals a job or asks to cancel; the inputs are valid and the
\* calibration ends with status 0, so no job step enters jobError.
DbReachable == last'.sql # -1 => last'.sqlOk

HappyPending == RowPending /\ DbReachable

HappyAlive == RunRowAlive /\ DbReachable /\ last'.found # "dead1"

HappyDead == RowDead /\ DbReachable

HappyRun(id) ==
    /\ \/ RunSetup(id)
       \/ RunSend(id)
       \/ RunFetch(id)
       \/ RunCheck(id)
       \/ RunCalibrate(id)
       \/ RunPublish(id)
       \/ RunReturn(id)
    /\ job'[id].pc # "error"

\* The dispatcher's steps: main() sleeps until the next tick and takes the
\* rows one after another (lines 421-751).
HappyTick ==
    \/ TickBegin
    \/ HappyPending
    \/ HappyAlive
    \/ HappyDead
    \/ RowOther
    \/ TickEnd

HappyNext ==
    \/ HappyTick
    \/ \E id \in Ids : HappyRun(id)

\* Dispatcher and job are separate processes the system schedules: each takes
\* its next step eventually.
HappySpec ==
    /\ Init
    /\ [][HappyNext]_vars
    /\ WF_vars(HappyTick)
    /\ WF_vars(\E id \in Ids : HappyRun(id))

----------------------------------------------------------------------------
\* The claims.  Each is about the state right after a row was handled: last
\* holds what the row and the registry were and what the handling did, the
\* other variables hold what it left.

Terminal == {2, 3, 4, 5, 6, 8, 9}

RowHandled(id) == last.path # "none" /\ last.id = id

\* The registry entry of id and its process are as the row found them.
RegistryKept(id) ==
    /\ (id \in dict_proc) = last.inReg
    /\ (id \in dict_pipe) = last.inReg
    /\ proc[id] = last.procWas

\* C1: after a row with progress 0 is handled, the row is written to 1; if
\* the id was not in the registry exactly one job was started for it and the
\* registry holds the id; if it was, no job was started and the registry is
\* as it was.
C1_Admission ==
    \A id \in Ids :
        (RowHandled(id) /\ last.i_progress = 0) =>
            /\ ~last.crash
            /\ last.sql = 1
            /\ last.sqlOk => result[id] = 1
            /\ IF last.inReg
               THEN last.started = 0 /\ RegistryKept(id)
               ELSE /\ last.started = 1
                    /\ id \in dict_proc /\ id \in dict_pipe
                    /\ proc[id] = "starting"

\* C1's case: a pending row whose id is registered already (so an earlier
\* pending row started its job) has been handled.
C1_Witness ==
    \E id \in Ids :
        /\ RowHandled(id) /\ last.i_progress = 0 /\ last.inReg
        /\ last.sqlOk /\ result[id] = 1

\* C2: handling a row read as 2, 3, 4, 5, 6, 8 or 9 issues no update, starts,
\* signals and kills nothing and leaves registry and job as they were; and
\* no row that holds one of these values in the table is updated, whatever
\* value the SELECT had read for it.
C2_TerminalUntouched ==
    \A id \in Ids :
        /\ (RowHandled(id) /\ last.i_progress \in Terminal) =>
              /\ last.sql = -1 /\ ~last.crash
              /\ last.started = 0
              /\ ~last.sigkill /\ ~last.sigterm /\ ~last.rmtree
              /\ RegistryKept(id)
              /\ pipe[id] = last.tokens
              /\ result[id] = last.db
        /\ (RowHandled(id) /\ last.db \in Terminal) => last.sql = -1

\* C2's case: a row the service itself had written to 3 has been handled.
C2_Witness ==
    \E id \in Ids :
        /\ RowHandled(id) /\ last.i_progress = 3 /\ last.db = 3
        /\ last.path = "other"

\* The value after the first exit token 4 among the tokens e of a job, None
\* when there is none.
FlagOf(e) ==
    LET k == CHOOSE i \in 1..Len(e) : e[i] = 4 /\ \A j \in 1..(i - 1) : e[j] # 4
    IN  IF k < Len(e) THEN e[k + 1] ELSE None

\* The contract's table of result flags.
DoneCodeOf(f) ==
    CASE f = 0 -> 3
      [] f = 1 -> 5
      [] f = 2 -> 4
      [] f = 3 -> 6
      [] OTHER -> 9

HasExitToken(e) == \E i \in 1..Len(e) : e[i] = 4

\* C3: in each of the three classifications (a job alive at the drain that
\* sent 4 and was then found dead; a job found dead under a row in progress;
\* a job found dead under a row to cancel), a job that has sent 4 and exited
\* with status 0 has its row written by the value that follows 4: 0 gives 3,
\* 1 gives 5, 2 gives 4, 3 gives 6, anything else or nothing gives 9.
C3_Classification ==
    \A id \in Ids :
        (/\ RowHandled(id)
         /\ last.path \in {"aliveDone", "dead", "cancelDead"}
         /\ last.found = "dead0"
         /\ HasExitToken(last.tokens)) =>
            last.sql = DoneCodeOf(FlagOf(last.tokens))

\* C3's case: a job alive at the drain had sent 4 and the flag 3, was found
\* dead with exit code 0, and its row was written to 6.
C3_Witness ==
    \E id \in Ids :
        /\ RowHandled(id) /\ last.path = "aliveDone" /\ last.found = "dead0"
        /\ HasExitToken(last.tokens) /\ FlagOf(last.tokens) = 3
        /\ last.sql = 6 /\ last.sqlOk /\ result[id] = 6

\* The row was in progress, its id registered, and its job had exited with a
\* status other than 0: before the row was taken up, or as line 563 found.
FailedJob(id) ==
    /\ RowHandled(id) /\ last.i_progress = 1 /\ last.inReg
    /\ (last.procWas = "dead1" \/ last.found = "dead1")

\* C4 as stated: a row in progress whose registered job has exited with a
\* status other than 0 is written to 2, whatever tokens the job sent, and
\* the id leaves the registry.
C4_FailureAsStated ==
    \A id \in Ids :
        FailedJob(id) => last.sql = 2 /\ id \notin dict_proc

\* C4, amended: the same provided the job directory holds no kill.it.
C4_Failure ==
    \A id \in Ids :
        (FailedJob(id) /\ ~last.killitWas) =>
            /\ last.sql = 2
            /\ last.sqlOk => result[id] = 2
            /\ id \notin dict_proc /\ id \notin dict_pipe

\* C4's case: a job that sent the exit token and a flag yet exited with a
\* status other than 0 was found dead, and its row written to 2.
C4_Witness ==
    \E id \in Ids :
        /\ FailedJob(id) /\ ~last.killitWas /\ last.path = "dead"
        /\ HasExitToken(last.tokens) /\ FlagOf(last.tokens) = 0
        /\ last.sqlOk /\ result[id] = 2

\* C5: a row in progress whose id is registered and whose job directory
\* holds kill.it: the job is sent SIGKILL, the job directory is removed, the
\* id leaves the registry and the row is written to 9.
C5_AdminKill ==
    \A id \in Ids :
        (RowHandled(id) /\ last.i_progress = 1 /\ last.inReg /\ last.killitWas) =>
            /\ last.sigkill
            /\ ~jobdir[id]
            /\ id \notin dict_proc
            /\ last.sql = 9

\* C6: a row in progress whose id is not registered (the service was started
\* again) and whose job directory holds no kill.it: after it is handled a job
\* is registered for the id, no update was issued and the row is as it was.
C6_RestartRecovery ==
    \A id \in Ids :
        (RowHandled(id) /\ last.i_progress = 1 /\ ~last.inReg /\ ~last.killitWas) =>
            /\ ~last.crash
            /\ last.started = 1
            /\ id \in dict_proc /\ id \in dict_pipe
            /\ is_alive(id)
            /\ last.sql = -1
            /\ result[id] = last.db

\* C6's case: the service was started again while the job of a row in
\* progress was running (that job still runs, held by no registry); the row
\* was handled, a new job is registered and the row is still 1.
C6_Witness ==
    \E id \in Ids :
        /\ RowHandled(id) /\ last.path = "recover"
        /\ stray[id] /\ id \in dict_proc /\ result[id] = 1

\* The row asked to cancel, its id was registered and its job alive.
CancelOfLiveJob(id) ==
    /\ RowHandled(id) /\ last.i_progress = 7 /\ last.inReg
    /\ last.procWas \in {"starting", "alive"}

\* C7 as stated: after a row to cancel with a registered live job is handled
\* the job process is no longer alive, the id has left the registry and the
\* row is written to 8.
C7_CancelAsStated ==
    \A id \in Ids :
        CancelOfLiveJob(id) =>
            /\ ~last.zombie
            /\ id \notin dict_proc
            /\ last.sql = 8

\* C7, amended: the job was sent SIGTERM, the id has left the registry and the
\* row is written to 8; the job process is no longer alive unless it outlived
\* the wait, and then it is left running, held by no registry.
C7_Cancel ==
    \A id \in Ids :
        CancelOfLiveJob(id) =>
            /\ last.sigterm /\ ~last.sigkill
            /\ id \notin dict_proc /\ id \notin dict_pipe
            /\ proc[id] = "none"
            /\ last.zombie => stray[id]
            /\ last.sql = 8
            /\ last.sqlOk => result[id] = 8

\* C7's case: a live job was cancelled and outlived the wait.
C7_Witness ==
    \E id \in Ids :
        /\ CancelOfLiveJob(id) /\ last.zombie
        /\ last.sqlOk /\ result[id] = 8

\* The tokens e end with the exit token and a result flag in 0..3.
EndsWithFlag(e) ==
    /\ Len(e) >= 2
    /\ e[Len(e) - 1] = 4
    /\ e[Len(e)] \in {0, 1, 2, 3}

\* C8: a row to cancel whose registered job is already dead, having sent 4
\* and a flag in 0..3 and exited with status 0, is written to the done code
\* of the flag, never to 8, and the id leaves the registry.
C8_CompletionWins ==
    \A id \in Ids :
        (/\ RowHandled(id) /\ last.i_progress = 7 /\ last.inReg
         /\ last.procWas = "dead0"
         /\ EndsWithFlag(last.tokens)) =>
            /\ last.sql = DoneCodeOf(last.tokens[Len(last.tokens)])
            /\ last.sql \in {3, 4, 5, 6}
            /\ last.sqlOk => result[id] = last.sql
            /\ id \notin dict_proc /\ id \notin dict_pipe

\* C8's case: the front end asked to cancel a job that had sent 4 and the
\* flag 1 and exited with status 0; the row was written to 5.
C8_Witness ==
    \E id \in Ids :
        /\ RowHandled(id) /\ last.path = "cancelDead" /\ last.db = 7
        /\ last.procWas = "dead0" /\ EndsWithFlag(last.tokens)
        /\ last.sqlOk /\ result[id] = 5

\* A value of e that is not a lifecycle token 1..4 and is not the result
\* flag either (no exit token comes before it).
ProtocolViolation(e) ==
    \E i \in 1..Len(e) :
        /\ e[i] \notin {1, 2, 3, 4}
        /\ \A j \in 1..(i - 1) : e[j] # 4

\* C9: when the pipe of a registered live job is drained for a row in
\* progress and any drained value is a non-integer or an integer outside
\* 1..4, the job is sent SIGKILL, its directory is removed, the id leaves the
\* registry and the row is written to 9.
C9_ProtocolViolation ==
    \A id \in Ids :
        (/\ RowHandled(id)
         /\ last.path \in {"aliveDone", "aliveRunning", "aliveKill"}
         /\ ProtocolViolation(last.tokens)) =>
            /\ last.sigkill
            /\ ~jobdir[id]
            /\ id \notin dict_proc
            /\ last.sql = 9

\* C10: handling a row never ends the service: whatever the row, the
\* registry, kill.it and the job, the dispatcher goes on with the rows.
C10_Containment ==
    \A id \in Ids :
        RowHandled(id) => ~last.crash /\ sup = "rows"

\* The live job processes of id: the one the registry holds and the ones it
\* does not.  A job process works in ../jobs/job_<id>/ from its first lines
\* (50-58) on and replaces ../Results/<id>/ when it publishes (193-207).
Writers(id) ==
    (IF is_alive(id) THEN 1 ELSE 0) + (IF stray[id] THEN 1 ELSE 0)

\* C11: in every reachable state, for every id, at most one live process is
\* writing the job directory and at most one the results directory of the id.
C11_ExclusiveOwnership ==
    \A id \in Ids : Writers(id) <= 1

\* C12 as stated: each value the service writes to a row is at least the
\* value it read for the row, unless it writes 8, 9 or 2; so no done code 3..6
\* is written over a row read as 7.
C12_MonotoneAsStated ==
    \A id \in Ids :
        (RowHandled(id) /\ last.sql # -1) =>
            \/ last.sql >= last.i_progress
            \/ last.sql \in {2, 8, 9}

\* C12, amended: each value the service writes to a row is at least the value
\* it read for the row, unless it writes 8, 9 or 2, or writes the done code of
\* a job found dead, with its exit token sent and exit code 0, under a row
\* read as 7; and it writes only over rows read as 0, 1 or 7.
C12_Monotone ==
    \A id \in Ids :
        (RowHandled(id) /\ last.sql # -1) =>
            /\ last.i_progress \notin Terminal
            /\ \/ last.sql >= last.i_progress
               \/ last.sql \in {2, 8, 9}
               \/ /\ last.i_progress = 7 /\ last.sql \in {3, 4, 5, 6}
                  /\ last.path = "cancelDead" /\ last.found = "dead0"
                  /\ HasExitToken(last.tokens)

\* C12's case: a row read as 7 whose job was found dead without the exit
\* token and with exit code 0 was written to 9.
C12_Witness ==
    \E id \in Ids :
        /\ RowHandled(id) /\ last.i_progress = 7 /\ last.path = "cancelDead"
        /\ last.found = "dead0" /\ ~HasExitToken(last.tokens)
        /\ last.sql = 9 /\ last.sqlOk /\ result[id] = 9

\* C13: dict_proc and dict_pipe hold the same ids after every row (and in
\* between), and an id is in them exactly when a job process and its pipe
\* are held for it.
C13_RegistryWellFormed ==
    /\ dict_proc = dict_pipe
    /\ \A id \in Ids : (id \in dict_proc) = (proc[id] # "none")

\* C13's case: killItWithFire has taken a registered job of a row in progress
\* out of both dictionaries, and the dispatcher goes on.
C13_Witness ==
    \E id \in Ids :
        /\ RowHandled(id) /\ last.path = "aliveKill" /\ last.inReg
        /\ last.rmtree /\ ~last.crash
        /\ id \notin dict_proc /\ id \notin dict_pipe

\* The row was in progress, its id registered, its job alive, and every token
\* drained from the pipe was 1, 2 or 3 (or there was none).
StableRunning(id) ==
    /\ RowHandled(id) /\ last.i_progress = 1 /\ last.inReg
    /\ last.procWas \in {"starting", "alive"}
    /\ \A i \in 1..Len(last.tokens) : last.tokens[i] \in {1, 2, 3}

\* What C14 says of such a row: it is written to 1, registry and job are as
\* they were, the job still alive, and nothing was signalled, killed, removed
\* or started.
LeftRunning(id) ==
    /\ ~last.crash
    /\ last.sql = 1
    /\ last.sqlOk => result[id] = 1
    /\ RegistryKept(id)
    /\ is_alive(id)
    /\ ~last.sigkill /\ ~last.sigterm /\ ~last.rmtree
    /\ last.started = 0

\* C14 as stated: every tick on a row in progress whose registered job stays
\* alive and sent only tokens 1, 2, 3 leaves the row at 1 and the registry
\* unchanged and neither signals nor kills the job.
C14_StableAsStated ==
    \A id \in Ids : StableRunning(id) => LeftRunning(id)

\* C14, amended: the same provided the job directory holds no kill.it.
C14_Stable ==
    \A id \in Ids : (StableRunning(id) /\ ~last.killitWas) => LeftRunning(id)

\* C14's case: a tick drained 1, 2, 3 from a live job and left row, registry
\* and job as they were.
C14_Witness ==
    \E id \in Ids :
        /\ StableRunning(id) /\ ~last.killitWas
        /\ last.tokens = <<1, 2, 3>>
        /\ last.path = "aliveRunning" /\ last.sqlOk /\ result[id] = 1

\* The row holds 3, the reports are in ../Results/<id> and the id is in
\* neither dictionary.
Completed(id) ==
    /\ result[id] = 3
    /\ Reports \subseteq job[id].results
    /\ id \notin dict_proc /\ id \notin dict_pipe

\* The wait of line 562 ended with the job, its exit token read, still alive.
GraceOverrun(id) ==
    RowHandled(id) /\ last.path = "aliveDone" /\ last.found = "alive"

\* A row at 0 is first written to 1, with its id then in the registry.
FirstWrittenTo1 ==
    [][\A id \in Ids :
          (result[id] = 0 /\ result'[id] # 0) =>
              (result'[id] = 1 /\ id \in dict_proc' /\ id \in dict_pipe')]_vars

\* C15 as stated: on the happy path a row at 0 is first written to 1 with its
\* id registered, and eventually the row holds 3, the reports are in
\* ../Results/<id> and the id has left the registry.
C15_HappyPathAsStated ==
    /\ FirstWrittenTo1
    /\ \A id \in Ids : (result[id] = 0) ~> Completed(id)

\* C15, amended: the same, unless a tick that has read the exit token finds
\* the job still alive when the wait of 0.5 s is over.
C15_HappyPath ==
    /\ FirstWrittenTo1
    /\ \A id \in Ids : (result[id] = 0) ~> (Completed(id) \/ GraceOverrun(id))

\* C15's case: the job ran to its end and a tick has just written 3.
C15_Witness ==
    \E id \in Ids :
        /\ RowHandled(id) /\ last.sql = 3 /\ last.db = 1
        /\ last.tokens = <<1, 2, 3, 4, 0>>
        /\ Completed(id)

\* The job process of id has ended, as runJob or jobError ended it.
JobEnded(id) == job[id].pc = "done"

\* C16: a job process ends with status 0 on success and otherwise with the
\* code its error path was called with: 11, 15, 16, 18, or the calibration's
\* own status.
C16_ExitCodes ==
    \A id \in Ids :
        JobEnded(id) =>
            job[id].exitcode =
                (IF job[id].errcode = None THEN 0 ELSE job[id].errcode)

\* C17: a job process that ended on its error path has, before it ended,
\* made ../Results/<id> again with data.json and report.pdf in it, and has
\* written <id>.err.
C17_ErrorArtifacts ==
    \A id \in Ids :
        (JobEnded(id) /\ job[id].errcode # None) =>
            /\ job[id].errfile
            /\ job[id].remade
            /\ {"data.json", "report.pdf"} \subseteq job[id].results

\* C18: a row to cancel whose id is not registered is written to 8; no job is
\* started, no process is signalled, and the registry is as it was.
C18_CancelUnknown ==
    \A id \in Ids :
        (RowHandled(id) /\ last.i_progress = 7 /\ ~last.inReg) =>
            /\ ~last.crash
            /\ last.sql = 8
            /\ last.sqlOk => result[id] = 8
            /\ last.started = 0
            /\ ~last.sigkill /\ ~last.sigterm /\ ~last.rmtree
            /\ RegistryKept(id)

\* C18's case: the service was started again while a job ran, the front end
\* asked to cancel it, and the row was written to 8 with the job still
\* running, held by no registry.
C18_Witness ==
    \E id \in Ids :
        /\ RowHandled(id) /\ last.path = "cancelUnknown" /\ ~last.inReg
        /\ stray[id] /\ last.sqlOk /\ result[id] = 8

\* C19: the wait for a job to cancel ends after at most 51 polls, whatever
\* the job does; a job still alive then is not joined and not killed, the
\* zombie warning is logged, the id leaves the registry, the row is written
\* to 8 and the dispatcher goes on with the rows.
C19_BoundedCancelWait ==
    \A id \in Ids :
        CancelOfLiveJob(id) =>
            /\ last.slept <= ZombieLimit + 1
            /\ last.joined = ~last.zombie
            /\ last.zombie =>
                  /\ last.slept = ZombieLimit + 1
                  /\ ~last.sigkill /\ ~last.rmtree
                  /\ stray[id]
                  /\ id \notin dict_proc /\ id \notin dict_pipe
                  /\ last.sql = 8
                  /\ ~last.crash /\ sup = "rows"

\* C19's case: a job to cancel answered alive at every poll; the wait gave
\* up after 51 polls and the row was written to 8.
C19_Witness ==
    \E id \in Ids :
        /\ CancelOfLiveJob(id) /\ last.zombie /\ ~last.joined
        /\ last.slept = ZombieLimit + 1
        /\ last.sql = 8 /\ sup = "rows"

\* C20: a row in progress whose id is not registered and whose job directory
\* holds kill.it is written to 9; no job is started, the id stays out of the
\* registry and the dispatcher goes on with the next row.
C20_KillDuringRecovery ==
    \A id \in Ids :
        (RowHandled(id) /\ last.i_progress = 1 /\ ~last.inReg /\ last.killitWas) =>
            /\ last.sql = 9
            /\ last.started = 0
            /\ id \notin dict_proc /\ id \notin dict_pipe
            /\ ~last.crash /\ sup = "rows"

\* C21: when token 4 was read from a registered live job and the job is still
\* alive after the wait, the job is sent SIGKILL, its directory is removed,
\* the id is taken out of the registry (once, nothing raising on a second
\* removal) and the row is written to 9 in that tick.
C21_ExitNotHonoured ==
    \A id \in Ids :
        (RowHandled(id) /\ last.path = "aliveDone" /\ last.found = "alive") =>
            /\ last.sigkill
            /\ ~jobdir[id]
            /\ id \notin dict_proc /\ id \notin dict_pipe
            /\ ~last.crash
            /\ last.sql = 9

\* The row's handling took the id out of the registry.
Deregistered(id) == last.inReg /\ id \notin dict_proc

\* C22: whenever the service writes 2, 3, 4, 5, 6, 8 or 9 to a row the id is
\* in neither dictionary when the row's handling ends; and the handling of a
\* row takes an id out of the registry only when it has set i_update to one
\* of these codes.
C22_TerminalDeregisters ==
    \A id \in Ids :
        RowHandled(id) =>
            /\ last.sql \in Terminal =>
                  id \notin dict_proc /\ id \notin dict_pipe
            /\ Deregistered(id) => last.i_update \in Terminal

\* C22's case: a registered job found dead with a status other than 0 had
\* its row written to 2 and its entries deleted.
C22_Witness ==
    \E id \in Ids :
        /\ RowHandled(id) /\ last.path = "dead" /\ last.found = "dead1"
        /\ last.sql = 2 /\ last.sqlOk /\ Deregistered(id)

\* s is a prefix of 1, 2, 3, 4, f for a flag f in 0..3.
TokenPrefix(s) ==
    /\ Len(s) <= 5
    /\ \A i \in 1..Len(s) : IF i <= 4 THEN s[i] = i ELSE s[i] \in {0, 1, 2, 3}

\* The first two parts of C23: the tokens a job process has sent are a prefix
\* of 1, 2, 3, 4, f, and 4 is among them only when every entry of outputs/
\* has been copied to ../Results/<id>.
TokensInOrder(id) ==
    /\ TokenPrefix(job[id].sent)
    /\ HasExitToken(job[id].sent) =>
          job[id].remade /\ Reports \subseteq job[id].results

\* C23 as stated: the tokens in order, and a job process that takes the
\* error path has never sent token 4.
C23_TokenDisciplineAsStated ==
    \A id \in Ids :
        /\ TokensInOrder(id)
        /\ job[id].errcode # None => ~HasExitToken(job[id].sent)

\* C23, amended: the tokens in order, and a job process sends nothing once it
\* has entered the error path: one that enters it before it reached line 221
\* never sends token 4.
C23_TokenDiscipline ==
    /\ [](\A id \in Ids : TokensInOrder(id))
    /\ [][\A id \in Ids :
            (job[id].errcode # None /\ job'[id].errcode # None) =>
                job'[id].sent = job[id].sent]_vars

\* C23's case: a job process sent 1, 2 and 3, published, and was stopped on
\* the error path by an entry of outputs/ it could not copy, token 4 unsent.
C23_Witness ==
    \E id \in Ids :
        /\ JobEnded(id) /\ job[id].errcode = 18
        /\ job[id].sent = <<1, 2, 3>>

\* C24: a tick whose connection or query fails handles no row, starts,
\* signals and kills no job, leaves the registry, the jobs and the table as
\* they were and issues no update; the dispatcher is then between ticks, and
\* a next tick begins.
C24_AbandonedTick ==
    [][last'.path = "abandon" =>
          /\ sup = "idle" /\ sup' = "idle"
          /\ UNCHANGED <<result, query, dict_proc, dict_pipe, proc, pipe,
                         stray, jobdir, killit, job>>
          /\ last'.sql = -1 /\ last'.started = 0
          /\ ~last'.sigkill /\ ~last'.sigterm /\ ~last'.rmtree
          /\ ~last'.crash]_vars

\* C24's case: a tick was abandoned while the job of a row in progress was
\* registered and running.
C24_Witness ==
    \E id \in Ids :
        /\ last.path = "abandon" /\ sup = "idle"
        /\ id \in dict_proc /\ is_alive(id) /\ result[id] = 1

\* C25: when a job was started for a pending row and the service ended before
\* the row was written to 1, the row is still 0, and the service that next
\* handles it starts no second job for the id while the first still runs.
C25_CrashBeforeWriteBack ==
    \A id \in Ids :
        (RowHandled(id) /\ last.i_progress = 0 /\ last.db = 0 /\ stray[id]) =>
            starts[id] <= 1

\* C26: in one run of the service, whether or not updates fail, at most one
\* job is started for an id between two requests of the front end (writes
\* of 0); so no job is started again after its outcome was classified and
\* the update failed.
C26_AtMostOnce ==
    \A id \in Ids : starts[id] <= 1

\* C27: once the front end has written 7 to a row the service never writes 1
\* over it, also when the 7 was written between the tick's SELECT and its
\* UPDATE of the row (and the row reaches 2, 3, 4, 5, 6, 8 or 9 in the end).
C27_CancelNotLost ==
    [][\A id \in Ids : result[id] = 7 => result'[id] # 1]_vars

====
